---- MODULE Spec2Model ----
(***************************************************************************)
(* Frame detection pipeline of the phone detector (detection-engine.js):   *)
(* the tick scheduler predictWebcam, the output decoder postprocess, the   *)
(* suppressor nms with calculateIOU, and the renderer displayDetections.   *)
(*                                                                         *)
(* Numbers.  JavaScript numbers are modelled as exact fixed-point values:  *)
(*   - class scores and objectness in a raw tensor are in hundredths      *)
(*     (90 stands for 0.90), box features are in model-space pixels;       *)
(*   - a candidate's score is in ten-thousandths (8100 stands for 0.81),   *)
(*     so that objectness * classScore is exact;                           *)
(*   - a candidate's x, y, width, height are in eighths of a pixel, so     *)
(*     that raw * img / model and w / 2 are exact for the frame sizes of   *)
(*     the model; IOU is a ratio of areas and does not depend on the unit; *)
(*   - an IOU is the pair [num, den] standing for num / den; den = 0 is    *)
(*     the NaN that 0 / 0 gives.                                           *)
(* NaN and infinite tensor entries are not modelled.                       *)
(***************************************************************************)
EXTENDS Integers, Sequences, FiniteSets, TLC

VARIABLES
    isRunning,           \* let isRunning
    isProcessing,        \* let isProcessing (the busy flag)
    lastPredictionTime,  \* let lastPredictionTime
    now,                 \* Date.now(), relative to page load
    model,               \* let model: "null" or "loaded"
    startup,             \* the latest call of startSystem: "none", "loading",
                         \* "failed", "ready" (checkVideo polling), "started"
    statusPanel,         \* statusPanel.innerText
    videoReady,          \* video.videoWidth # 0 /\ video.readyState >= 2
    timers,              \* pending callbacks that call predictWebcam, by kind
    cycles,              \* detection cycles in flight, in start order
    starts,              \* how many times detection was started
    sink,                \* what displayDetections last drew and reported
    log,                 \* events of the last step (for the claims)
    fnIn,                \* input of the pure function under check
    fnOut,               \* its result
    fnPc                 \* "idle": scheduler runs; "in": input drawn; "out": applied

vars == <<isRunning, isProcessing, lastPredictionTime, now, model, startup,
          statusPanel, videoReady, timers, cycles, starts, sink, log,
          fnIn, fnOut, fnPc>>

schedVars == <<isRunning, isProcessing, lastPredictionTime, now, model,
               startup, statusPanel, videoReady, timers, cycles, starts, sink,
               log>>

fnVars == <<fnIn, fnOut, fnPc>>

-----------------------------------------------------------------------------
(* Program constants *)

DETECTION_INTERVAL == 2000
PHONE_CLASS_INDEX == 67
NumClasses == 80
DimsV8 == 84
DimsV5 == 85
ConfThreshold == 40
NmsThreshold == 45
ModelSize == 640
SOUND_COOLDOWN == 2000
RetryDelay == 500
NextDelay == 1000

(* Bounds of the model *)

MaxD == 2          \* candidates in a raw output tensor
MaxDets == 3       \* candidates handed to nms directly
MaxStarts == 2     \* times detection is started (tick chains)
MaxClock == 4      \* clock advances, of NextDelay each
MaxShown == 2      \* detections handed to displayDetections directly
MaxSide == 2       \* width and height of the model input, in pixels

-----------------------------------------------------------------------------
(* Helpers *)

Max(a, b) == IF a > b THEN a ELSE b
Min(a, b) == IF a < b THEN a ELSE b

\* data[k] of a JavaScript array (0-based)
At(data, k) == data[k + 1]

\* CLASS_NAMES[maxClass]; only the phone's name is distinguished
ClassName(c) == IF c = PHONE_CLASS_INDEX THEN "cell phone" ELSE "other"

-----------------------------------------------------------------------------
(* calculateIOU and nms *)

\* the union computed from the area of the first box twice
calculateIOU_Area1Twice(box1, box2) ==
    LET x1 == Max(box1.x, box2.x)
        y1 == Max(box1.y, box2.y)
        x2 == Min(box1.x + box1.width, box2.x + box2.width)
        y2 == Min(box1.y + box1.height, box2.y + box2.height)
        intersection == (x2 - x1) * (y2 - y1)
        area1 == box1.width * box1.height
        union == area1 + area1 - intersection
    IN  IF x2 < x1 \/ y2 < y1
        THEN [num |-> 0, den |-> 1]
        ELSE [num |-> intersection, den |-> union]

calculateIOU(box1, box2) ==
    LET x1 == Max(box1.x, box2.x)
        y1 == Max(box1.y, box2.y)
        x2 == Min(box1.x + box1.width, box2.x + box2.width)
        y2 == Min(box1.y + box1.height, box2.y + box2.height)
        intersection == (x2 - x1) * (y2 - y1)
        area1 == box1.width * box1.height
        area2 == box2.width * box2.height
        union == area1 + area2 - intersection
    IN  IF x2 < x1 \/ y2 < y1
        THEN [num |-> 0, den |-> 1]
        ELSE [num |-> intersection, den |-> union]

\* iou < iouThreshold as JavaScript evaluates it (thr in hundredths);
\* false when iou is NaN
IouLess(iou, thr) ==
    \/ iou.den > 0 /\ iou.num * 100 < thr * iou.den
    \/ iou.den < 0 /\ iou.num * 100 > thr * iou.den
    \/ iou.den = 0 /\ iou.num < 0

\* iou >= iouThreshold; false when iou is NaN
IouAtLeast(iou, thr) ==
    \/ iou.den > 0 /\ iou.num * 100 >= thr * iou.den
    \/ iou.den < 0 /\ iou.num * 100 <= thr * iou.den
    \/ iou.den = 0 /\ iou.num > 0

\* det inserted before the candidates of equal score
RECURSIVE InsertByScore_BeforeEquals(_, _)
InsertByScore_BeforeEquals(det, sorted) ==
    IF sorted = <<>> THEN <<det>>
    ELSE IF Head(sorted).score > det.score
         THEN <<Head(sorted)>> \o InsertByScore_BeforeEquals(det, Tail(sorted))
         ELSE <<det>> \o sorted

\* insert det into a sequence sorted by descending score, after its equals
RECURSIVE InsertByScore(_, _)
InsertByScore(det, sorted) ==
    IF sorted = <<>> THEN <<det>>
    ELSE IF Head(sorted).score >= det.score
         THEN <<Head(sorted)>> \o InsertByScore(det, Tail(sorted))
         ELSE <<det>> \o sorted

\* detections.sort((a, b) => b.score - a.score): stable, descending
RECURSIVE SortByScore(_)
SortByScore(dets) ==
    IF dets = <<>> THEN <<>>
    ELSE InsertByScore(dets[Len(dets)], SortByScore(SubSeq(dets, 1, Len(dets) - 1)))

\* the filter callback with "iou <= iouThreshold"
KeepAfter_Lte(best, det, iouThreshold) ==
    LET iou == calculateIOU(best, det)
    IN  IouLess(iou, iouThreshold)
        \/ (iou.den > 0 /\ iou.num * 100 = iouThreshold * iou.den)

\* the filter callback of nms: det survives best
KeepAfter(best, det, iouThreshold) ==
    IouLess(calculateIOU(best, det), iouThreshold)

\* the loop lowering the score of an overlapping candidate instead of
\* dropping it
RECURSIVE NmsLoop_Decay(_, _)
NmsLoop_Decay(detections, iouThreshold) ==
    IF detections = <<>> THEN <<>>
    ELSE LET best == Head(detections)
             rest == [k \in 1..(Len(detections) - 1) |->
                         IF KeepAfter(best, detections[k + 1], iouThreshold)
                         THEN detections[k + 1]
                         ELSE [detections[k + 1] EXCEPT !.score = @ \div 2]]
         IN  <<best>> \o NmsLoop_Decay(rest, iouThreshold)

\* the while loop of nms
RECURSIVE NmsLoop(_, _)
NmsLoop(detections, iouThreshold) ==
    IF detections = <<>> THEN <<>>
    ELSE LET best == Head(detections)
             rest == SelectSeq(Tail(detections),
                               LAMBDA det: KeepAfter(best, det, iouThreshold))
         IN  <<best>> \o NmsLoop(rest, iouThreshold)

nms(detections, iouThreshold) ==
    NmsLoop(SortByScore(detections), iouThreshold)

-----------------------------------------------------------------------------
(* postprocess: the decoder *)

\* const scaleX = imgWidth / modelWidth (and scaleY), in quarters: exact for
\* the frame sizes of this model, which are multiples of a quarter of the
\* model input size
Scale(img, modelDim) == (4 * img) \div modelDim

\* a detection object whose horizontal values are scaled by scaleY and whose
\* vertical values are scaled by scaleX
Detection_SwappedScale(rawX, rawY, rawW, rawH, scaleX, scaleY, maxClass, score) ==
    [x |-> 2 * rawX * scaleY - rawW * scaleY,
     y |-> 2 * rawY * scaleX - rawH * scaleX,
     width |-> 2 * rawW * scaleY,
     height |-> 2 * rawH * scaleX,
     class |-> maxClass,
     className |-> ClassName(maxClass),
     score |-> score]

\* a detection object; x, y, width, height in eighths of a pixel:
\*   x_center = rawX * scaleX, w = rawW * scaleX, x = x_center - w / 2
Detection(rawX, rawY, rawW, rawH, scaleX, scaleY, maxClass, score) ==
    [x |-> 2 * rawX * scaleX - rawW * scaleX,
     y |-> 2 * rawY * scaleY - rawH * scaleY,
     width |-> 2 * rawW * scaleX,
     height |-> 2 * rawH * scaleY,
     class |-> maxClass,
     className |-> ClassName(maxClass),
     score |-> score]

\* a length in pixels, in the unit of a detection's coordinates
Pixels(n) == 8 * n

\* the YOLOv8 tensor read record by record
ReadV8_RecordMajor(outputData, numDetections, f, i) ==
    At(outputData, i * DimsV8 + f)

\* YOLOv8 is transposed: outputData[f * numDetections + i]
ReadV8(outputData, numDetections, f, i) == At(outputData, f * numDetections + i)

\* the YOLOv5 tensor read with the record length of YOLOv8
ReadV5_Stride84(outputData, f, i) == At(outputData, i * DimsV8 + f)

\* YOLOv5 is record-major: outputData[i * 85 + f]
ReadV5(outputData, f, i) == At(outputData, i * DimsV5 + f)

\* the loop with "if (score >= maxScore)": the last class of the best score
RECURSIVE MaxLoopV8_LastWins(_, _, _, _, _, _)
MaxLoopV8_LastWins(outputData, numDetections, i, j, maxClass, maxScore) ==
    IF j >= NumClasses THEN [class |-> maxClass, score |-> maxScore]
    ELSE LET score == ReadV8(outputData, numDetections, 4 + j, i)
         IN  IF score >= maxScore
             THEN MaxLoopV8_LastWins(outputData, numDetections, i, j + 1, j, score)
             ELSE MaxLoopV8_LastWins(outputData, numDetections, i, j + 1,
                                     maxClass, maxScore)

\* for (let j = 1; j < numClasses; j++) if (score > maxScore) ...   (YOLOv8)
RECURSIVE MaxLoopV8(_, _, _, _, _, _)
MaxLoopV8(outputData, numDetections, i, j, maxClass, maxScore) ==
    IF j >= NumClasses THEN [class |-> maxClass, score |-> maxScore]
    ELSE LET score == ReadV8(outputData, numDetections, 4 + j, i)
         IN  IF score > maxScore
             THEN MaxLoopV8(outputData, numDetections, i, j + 1, j, score)
             ELSE MaxLoopV8(outputData, numDetections, i, j + 1, maxClass, maxScore)

\* for (let j = 1; j < 80; j++) if (outputData[offset + 5 + j] > maxScore) ...
RECURSIVE MaxLoopV5(_, _, _, _, _)
MaxLoopV5(outputData, i, j, maxClass, maxScore) ==
    IF j >= NumClasses THEN [class |-> maxClass, score |-> maxScore]
    ELSE LET score == ReadV5(outputData, 5 + j, i)
         IN  IF score > maxScore
             THEN MaxLoopV5(outputData, i, j + 1, j, score)
             ELSE MaxLoopV5(outputData, i, j + 1, maxClass, maxScore)

\* the tests of one YOLOv8 candidate without "if (maxClass !== 67) continue"
AcceptV8_AnyClass(best) == ~(best.score < ConfThreshold)

\* the tests of one YOLOv8 candidate: maxScore >= 0.4 and maxClass = 67
AcceptV8(best) ==
    /\ ~(best.score < ConfThreshold)
    /\ ~(best.class # PHONE_CLASS_INDEX)

\* the tests of one YOLOv5 record: conf >= 0.4, conf * maxScore >= 0.4 and
\* maxClass = 67
AcceptV5(conf, best) ==
    /\ ~(conf < ConfThreshold)
    /\ ~(conf * best.score < ConfThreshold * 100)
    /\ ~(best.class # PHONE_CLASS_INDEX)

\* score: maxScore, in ten-thousandths
ScoreV8(best) == best.score * 100

\* the final score without the objectness factor
ScoreV5_NoObjectness(conf, best) == best.score * 100

\* const finalScore = conf * maxScore, in ten-thousandths
ScoreV5(conf, best) == conf * best.score

\* the body of the YOLOv8 loop for candidate i: <<>> on continue
StepV8(outputData, numDetections, i, scaleX, scaleY) ==
    LET best == MaxLoopV8(outputData, numDetections, i, 1, 0,
                          ReadV8(outputData, numDetections, 4, i))
    IN  IF AcceptV8(best)
        THEN <<Detection(ReadV8(outputData, numDetections, 0, i),
                         ReadV8(outputData, numDetections, 1, i),
                         ReadV8(outputData, numDetections, 2, i),
                         ReadV8(outputData, numDetections, 3, i),
                         scaleX, scaleY, best.class, ScoreV8(best))>>
        ELSE <<>>

\* the body of the YOLOv5 loop for record i: <<>> on continue
StepV5(outputData, i, scaleX, scaleY) ==
    LET conf == ReadV5(outputData, 4, i)
        best == MaxLoopV5(outputData, i, 1, 0, ReadV5(outputData, 5, i))
    IN  IF AcceptV5(conf, best)
        THEN <<Detection(ReadV5(outputData, 0, i), ReadV5(outputData, 1, i),
                         ReadV5(outputData, 2, i), ReadV5(outputData, 3, i),
                         scaleX, scaleY, best.class, ScoreV5(conf, best))>>
        ELSE <<>>

\* for (let i = 0; i < numDetections; i++) ... detections.push(...)
RECURSIVE DecodeV8(_, _, _, _, _)
DecodeV8(outputData, numDetections, i, scaleX, scaleY) ==
    IF i >= numDetections THEN <<>>
    ELSE StepV8(outputData, numDetections, i, scaleX, scaleY)
         \o DecodeV8(outputData, numDetections, i + 1, scaleX, scaleY)

\* for (let i = 0; i < numBoxes; i++) ... detections.push(...)
RECURSIVE DecodeV5(_, _, _, _, _)
DecodeV5(outputData, numBoxes, i, scaleX, scaleY) ==
    IF i >= numBoxes THEN <<>>
    ELSE StepV5(outputData, i, scaleX, scaleY)
         \o DecodeV5(outputData, numBoxes, i + 1, scaleX, scaleY)

\* outputDims.length === 3 && outputDims[1] === 84
IsV8(outputDims) == Len(outputDims) = 3 /\ outputDims[2] = DimsV8

\* outputDims.length === 3 && outputDims[2] === 85 (tested after IsV8)
IsV5(outputDims) == Len(outputDims) = 3 /\ outputDims[3] = DimsV5

\* the detections array as it stands when nms is called (empty for an
\* unknown format)
Decoded(output, imgWidth, imgHeight, modelWidth, modelHeight) ==
    LET scaleX == Scale(imgWidth, modelWidth)
        scaleY == Scale(imgHeight, modelHeight)
    IN  IF IsV8(output.dims)
        THEN DecodeV8(output.data, output.dims[3], 0, scaleX, scaleY)
        ELSE IF IsV5(output.dims)
        THEN DecodeV5(output.data, output.dims[2], 0, scaleX, scaleY)
        ELSE <<>>

postprocess(output, imgWidth, imgHeight, modelWidth, modelHeight) ==
    IF IsV8(output.dims) \/ IsV5(output.dims)
    THEN nms(Decoded(output, imgWidth, imgHeight, modelWidth, modelHeight),
             NmsThreshold)
    ELSE Decoded(output, imgWidth, imgHeight, modelWidth, modelHeight)

-----------------------------------------------------------------------------
(* displayDetections *)

\* the filter testing a class index that is not the phone's
IsPhone_WrongIndex(det) == det.class = PHONE_CLASS_INDEX + 10

\* detections.filter(det => det.class === 67 || det.className === 'cell phone')
IsPhone(det) == det.class = PHONE_CLASS_INDEX \/ det.className = "cell phone"

\* the box drawn as the part of the detection that lies on the canvas
ClampBox_Trims(det, canvasWidth, canvasHeight) ==
    LET boxX == Max(0, det.x)
        boxY == Max(0, det.y)
    IN  [x |-> boxX, y |-> boxY,
         w |-> Min(det.x + det.width, canvasWidth) - boxX,
         h |-> Min(det.y + det.height, canvasHeight) - boxY,
         label |-> det.className, score |-> det.score]

\* the box drawn with the width and height of the detection
ClampBox_NoShrink(det, canvasWidth, canvasHeight) ==
    [x |-> Max(0, Min(det.x, canvasWidth - det.width)),
     y |-> Max(0, Min(det.y, canvasHeight - det.height)),
     w |-> det.width, h |-> det.height,
     label |-> det.className, score |-> det.score]

\* the arguments of drawBox for one detection; canvasWidth and canvasHeight
\* in the units of the detection's x and y
ClampBox(det, canvasWidth, canvasHeight) ==
    LET boxX == Max(0, Min(det.x, canvasWidth - det.width))
        boxY == Max(0, Min(det.y, canvasHeight - det.height))
        boxW == Min(det.width, canvasWidth - boxX)
        boxH == Min(det.height, canvasHeight - boxY)
    IN  [x |-> boxX, y |-> boxY, w |-> boxW, h |-> boxH,
         label |-> det.className, score |-> det.score]

\* what displayDetections hands to drawBox and to updateStatus
displayDetections(detections, canvasWidth, canvasHeight) ==
    LET phoneDetections == SelectSeq(detections, IsPhone)
    IN  [boxes |-> [k \in 1..Len(phoneDetections) |->
                       ClampBox(phoneDetections[k], canvasWidth, canvasHeight)],
         found |-> Len(phoneDetections) > 0]

-----------------------------------------------------------------------------
(* Raw output tensors *)

\* a logical record: box, objectness and the scores of classes 0, 67 and 79
\* (every other class scores 0)
ClassScore(rec, j) ==
    IF j = 0 THEN rec.lo
    ELSE IF j = PHONE_CLASS_INDEX THEN rec.phone
    ELSE IF j = NumClasses - 1 THEN rec.hi
    ELSE 0

BoxFeature(rec, f) ==
    IF f = 0 THEN rec.cx ELSE IF f = 1 THEN rec.cy ELSE IF f = 2 THEN rec.w ELSE rec.h

\* feature f of a YOLOv8 candidate: 4 box features, then 80 class scores
FeatureV8(rec, f) == IF f < 4 THEN BoxFeature(rec, f) ELSE ClassScore(rec, f - 4)

\* feature f of a YOLOv5 record: 4 box features, objectness, 80 class scores
FeatureV5(rec, f) ==
    IF f < 4 THEN BoxFeature(rec, f)
    ELSE IF f = 4 THEN rec.obj
    ELSE ClassScore(rec, f - 5)

\* shape [1, 84, D]: for a fixed feature all D values are contiguous
TensorV8(recs) ==
    LET D == Len(recs)
    IN  [dims |-> <<1, DimsV8, D>>,
         data |-> [k \in 1..(DimsV8 * D) |->
                      FeatureV8(recs[((k - 1) % D) + 1], (k - 1) \div D)]]

\* shape [1, D, 85]: each record is contiguous
TensorV5(recs) ==
    LET D == Len(recs)
    IN  [dims |-> <<1, D, DimsV5>>,
         data |-> [k \in 1..(DimsV5 * D) |->
                      FeatureV5(recs[((k - 1) \div DimsV5) + 1], (k - 1) % DimsV5)]]

\* a tensor of a shape that is neither format, all zeros
TensorOther(dims) ==
    [dims |-> dims,
     data |-> [k \in 1..(IF Len(dims) = 3 THEN dims[1] * dims[2] * dims[3]
                         ELSE dims[1] * dims[2]) |-> 0]]

ScenarioRec ==
    [cx |-> 100, cy |-> 100, w |-> 50, h |-> 50, obj |-> 90,
     lo |-> 0, phone |-> 90, hi |-> 0]

\* the outputs the inference backend returns in the scheduler's runs
SchedOutputs ==
    << TensorOther(<<1, 7, 7>>),
       TensorOther(<<7, 7>>),
       TensorV8(<<ScenarioRec>>),
       TensorV5(<<ScenarioRec>>),
       TensorV5(<<[ScenarioRec EXCEPT !.obj = 30]>>) >>

\* video.videoWidth, video.videoHeight: the stream asked for is 640 x 480
VideoWidth == 640
VideoHeight == 480

-----------------------------------------------------------------------------
(* The scheduler *)

TimerKinds == {"boot", "start", "retry", "next"}
TickKinds == {"start", "retry", "next"}

\* the event of the last step: what ran, at which stage, how it ended, and
\* for the end of a cycle the output it decoded (0: none) and the number of
\* setTimeout(predictWebcam, 1000) calls it made
Log(ev, stage, outcome, out, n) ==
    [ev |-> ev, stage |-> stage, outcome |-> outcome, out |-> out, n |-> n]

NoLog == Log("none", "none", "none", 0, 0)

Cycle(pc, out, dets, scheduled) ==
    [pc |-> pc, out |-> out, dets |-> dets, scheduled |-> scheduled]

RemoveAt(seq, c) == SubSeq(seq, 1, c - 1) \o SubSeq(seq, c + 1, Len(seq))

SchedInit ==
    /\ isRunning = FALSE
    /\ isProcessing = FALSE
    /\ lastPredictionTime = 0
    /\ now = DETECTION_INTERVAL
    /\ model = "null"
    /\ startup = "none"
    /\ statusPanel = ""
    /\ videoReady = FALSE
    /\ timers = [k \in TimerKinds |-> 0]
    /\ cycles = <<>>
    /\ starts = 0
    /\ sink = [boxes |-> <<>>, found |-> FALSE]
    /\ log = NoLog

\* time passes, and a watchdog gives up on a cycle that has held the busy
\* flag for two intervals
Advance_Watchdog ==
    /\ now < DETECTION_INTERVAL + MaxClock * NextDelay
    /\ now' = now + NextDelay
    /\ isProcessing' = (isProcessing
                          /\ now' - lastPredictionTime < 2 * DETECTION_INTERVAL)
    /\ log' = NoLog
    /\ UNCHANGED <<isRunning, lastPredictionTime, model, videoReady, timers,
                   cycles, starts, sink, startup, statusPanel, fnVars>>

\* time passes
Advance ==
    /\ now < DETECTION_INTERVAL + MaxClock * NextDelay
    /\ now' = now + NextDelay
    /\ log' = NoLog
    /\ UNCHANGED <<isRunning, isProcessing, lastPredictionTime, model,
                   videoReady, timers, cycles, starts, sink, startup, statusPanel, fnVars>>

\* the click handler of requestPermissionBtn up to the call of startSystem:
\* the stream is attached to the video element and the model begins to load
RequestPermission ==
    /\ ~isRunning
    /\ startup # "loading"
    /\ startup' = "loading"
    /\ statusPanel' = "Loading ONNX Runtime..."
    /\ videoReady' = FALSE
    /\ log' = NoLog
    /\ UNCHANGED <<isRunning, isProcessing, lastPredictionTime, now, model,
                   timers, cycles, starts, sink, fnVars>>

\* model = await ort.InferenceSession.create(...) resolves: startSystem sets
\* up the checkVideo interval and returns
LoadModel ==
    /\ startup = "loading"
    /\ model' = "loaded"
    /\ startup' = "ready"
    /\ statusPanel' = "Model Ready - Waiting for camera..."
    /\ log' = NoLog
    /\ UNCHANGED <<isRunning, isProcessing, lastPredictionTime, now,
                   videoReady, timers, cycles, starts, sink, fnVars>>

\* loadONNX, fetch or InferenceSession.create fails: the catch of startSystem
\* writes the error to the status panel, and model keeps its value
LoadFails ==
    /\ startup = "loading"
    /\ startup' = "failed"
    /\ statusPanel' = "Error"
    /\ log' = [NoLog EXCEPT !.ev = "loadfail"]
    /\ UNCHANGED <<isRunning, isProcessing, lastPredictionTime, now, model,
                   videoReady, timers, cycles, starts, sink, fnVars>>

\* the video element gains or loses its current frame
VideoChange ==
    /\ videoReady' = ~videoReady
    /\ log' = NoLog
    /\ UNCHANGED <<isRunning, isProcessing, lastPredictionTime, now, model,
                   timers, cycles, starts, sink, startup, statusPanel, fnVars>>

\* the checkVideo interval of startSystem finds the video ready and is
\* cleared
CheckVideoStart ==
    /\ startup = "ready"
    /\ model = "loaded"
    /\ videoReady
    /\ starts < MaxStarts
    /\ isRunning' = TRUE
    /\ startup' = "started"
    /\ statusPanel' = "Active: YOLOv8 Nano"
    /\ timers' = [timers EXCEPT !["boot"] = @ + 1]
    /\ starts' = starts + 1
    /\ log' = NoLog
    /\ UNCHANGED <<isProcessing, lastPredictionTime, now, model, videoReady,
                   cycles, sink, fnVars>>

\* a loadeddata listener fires; the click handler adds one after each call of
\* startSystem has returned, whether the model was loaded or not
LoadedDataStart ==
    /\ startup \in {"failed", "ready", "started"}
    /\ videoReady
    /\ starts < MaxStarts
    /\ isRunning' = TRUE
    /\ statusPanel' = "Active: YOLOv8 Nano"
    /\ timers' = [timers EXCEPT !["boot"] = @ + 1]
    /\ starts' = starts + 1
    /\ log' = NoLog
    /\ UNCHANGED <<isProcessing, lastPredictionTime, now, model, startup,
                   videoReady, cycles, sink, fnVars>>

\* setTimeout(() => { requestIdleCallback(predictWebcam, ...) }, 500)
BootFire ==
    /\ timers["boot"] > 0
    /\ timers' = [timers EXCEPT !["boot"] = @ - 1, !["start"] = @ + 1]
    /\ log' = NoLog
    /\ UNCHANGED <<isRunning, isProcessing, lastPredictionTime, now, model,
                   videoReady, cycles, starts, sink, startup, statusPanel, fnVars>>

\* the click handler of stopBtn
StopClick ==
    /\ isRunning' = FALSE
    /\ videoReady' = FALSE
    /\ log' = [NoLog EXCEPT !.ev = "stop"]
    /\ UNCHANGED <<isProcessing, lastPredictionTime, now, model, timers,
                   cycles, starts, sink, startup, statusPanel, fnVars>>

\* the test of the interval with half of DETECTION_INTERVAL
TooEarly_HalfInterval == now - lastPredictionTime < DETECTION_INTERVAL \div 2

\* const now = Date.now(); if (now - lastPredictionTime < DETECTION_INTERVAL)
TooEarly == now - lastPredictionTime < DETECTION_INTERVAL

\* the tick put off with the delay that follows a cycle
Defer_NextDelay(kind) ==
    /\ timers' = [[timers EXCEPT ![kind] = @ - 1] EXCEPT !["next"] = @ + 1]
    /\ log' = Log("tick", kind, "retry", 0, 0)
    /\ UNCHANGED <<isProcessing, lastPredictionTime, cycles>>

\* setTimeout(predictWebcam, 500); return: the timer of the given kind has
\* fired and a retry timer is set
Defer(kind) ==
    /\ timers' = [[timers EXCEPT ![kind] = @ - 1] EXCEPT !["retry"] = @ + 1]
    /\ log' = Log("tick", kind, "retry", 0, 0)
    /\ UNCHANGED <<isProcessing, lastPredictionTime, cycles>>

\* the body of predictWebcam up to the setTimeout that begins the cycle, run
\* by a timer or idle callback of the given kind; checkRunning and checkBusy
\* stand for the tests of isRunning and of isProcessing
TickBody(kind, checkRunning, checkBusy) ==
    /\ timers[kind] > 0
    /\ IF (checkRunning /\ ~isRunning) \/ model = "null"
       THEN /\ timers' = [timers EXCEPT ![kind] = @ - 1]
            /\ log' = Log("tick", kind, "return", 0, 0)
            /\ UNCHANGED <<isProcessing, lastPredictionTime, cycles>>
       ELSE IF ~videoReady
                \/ TooEarly
                \/ (checkBusy /\ isProcessing)
       THEN Defer(kind)
       ELSE /\ lastPredictionTime' = now
            /\ isProcessing' = TRUE
            /\ timers' = [timers EXCEPT ![kind] = @ - 1]
            /\ cycles' = Append(cycles, Cycle("yield", 0, <<>>, 0))
            /\ log' = Log("tick", kind, "begin", 0, 0)
    /\ UNCHANGED <<isRunning, now, model, videoReady, starts, sink, startup, statusPanel, fnVars>>

\* predictWebcam without "if (isProcessing) ... return"
predictWebcam_NoBusyCheck(kind) == TickBody(kind, TRUE, FALSE)

\* predictWebcam without the test of isRunning
predictWebcam_NoRunningCheck(kind) == TickBody(kind, FALSE, TRUE)

predictWebcam(kind) == TickBody(kind, TRUE, TRUE)

\* the catch block drawing an empty detection set
CatchAt_Renders(c, stage) ==
    /\ isProcessing' = FALSE
    /\ timers' = [timers EXCEPT !["next"] = @ + 1]
    /\ cycles' = RemoveAt(cycles, c)
    /\ log' = Log("end", stage, "caught", cycles[c].out, cycles[c].scheduled + 1)
    /\ sink' = [boxes |-> <<>>, found |-> FALSE]

\* catch (err) { isProcessing = false }, then setTimeout(predictWebcam, 1000):
\* the end of a cycle whose stage threw
CatchAt(c, stage) ==
    /\ isProcessing' = FALSE
    /\ timers' = [timers EXCEPT !["next"] = @ + 1]
    /\ cycles' = RemoveAt(cycles, c)
    /\ log' = Log("end", stage, "caught", cycles[c].out, cycles[c].scheduled + 1)
    /\ UNCHANGED sink

\* a stage that went through: the cycle moves on to the next suspension
ProceedAt(c, pc) ==
    /\ cycles' = [cycles EXCEPT ![c].pc = pc]
    /\ log' = Log("stage", cycles[c].pc, "ok", 0, 0)
    /\ UNCHANGED <<isProcessing, timers, sink>>

\* the try block entered past the call of preprocess
CycleEnter_SkipsPreprocess(c) ==
    /\ cycles[c].pc = "yield"
    /\ ProceedAt(c, "tensor")
    /\ UNCHANGED <<isRunning, lastPredictionTime, now, model, videoReady,
                   starts, startup, statusPanel, fnVars>>

\* the 200 ms timer fires: the try block is entered and suspends for 10 ms
CycleEnter(c) ==
    /\ cycles[c].pc = "yield"
    /\ ProceedAt(c, "preprocess")
    /\ UNCHANGED <<isRunning, lastPredictionTime, now, model, videoReady,
                   starts, startup, statusPanel, fnVars>>

\* const input = preprocess(video, ...), then the next 10 ms suspension
CyclePreprocess(c, throws) ==
    /\ cycles[c].pc = "preprocess"
    /\ IF throws THEN CatchAt(c, "preprocess") ELSE ProceedAt(c, "tensor")
    /\ UNCHANGED <<isRunning, lastPredictionTime, now, model, videoReady,
                   starts, startup, statusPanel, fnVars>>

\* new ort.Tensor(...) and the call of model.run(feeds)
CycleRun(c, throws) ==
    /\ cycles[c].pc = "tensor"
    /\ IF throws THEN CatchAt(c, "tensor") ELSE ProceedAt(c, "infer")
    /\ UNCHANGED <<isRunning, lastPredictionTime, now, model, videoReady,
                   starts, startup, statusPanel, fnVars>>

\* model.run settles: rejected, or resolved with results whose first output
\* is SchedOutputs[out], or is missing (out = 0); then the 10 ms suspension
InferenceSettles(c, rejected, out) ==
    /\ cycles[c].pc = "infer"
    /\ IF rejected
       THEN CatchAt(c, "infer")
       ELSE /\ cycles' = [cycles EXCEPT ![c].pc = "decode", ![c].out = out]
            /\ log' = Log("stage", "infer", "ok", 0, 0)
            /\ UNCHANGED <<isProcessing, timers, sink>>
    /\ UNCHANGED <<isRunning, lastPredictionTime, now, model, videoReady,
                   starts, startup, statusPanel, fnVars>>

\* postprocess(output, video.videoWidth, video.videoHeight, modelWidth,
\* modelHeight) for each output of the backend
SchedDetections ==
    [k \in DOMAIN SchedOutputs |->
        postprocess(SchedOutputs[k], VideoWidth, VideoHeight, ModelSize, ModelSize)]

\* postprocess(output, ...), requestAnimationFrame(...), and after the try
\* statement setTimeout(predictWebcam, 1000); output.dims throws on a
\* missing output
CycleDecode(c) ==
    /\ cycles[c].pc = "decode"
    /\ IF cycles[c].out = 0
       THEN CatchAt(c, "decode")
       ELSE /\ cycles' = [cycles EXCEPT ![c].pc = "render",
                                        ![c].dets = SchedDetections[cycles[c].out],
                                        ![c].scheduled = @ + 1]
            /\ timers' = [timers EXCEPT !["next"] = @ + 1]
            /\ log' = Log("stage", "decode", "ok", 0, 0)
            /\ UNCHANGED <<isProcessing, sink>>
    /\ UNCHANGED <<isRunning, lastPredictionTime, now, model, videoReady,
                   starts, startup, statusPanel, fnVars>>

\* the callback calling displayDetections([])
Shown_Nothing(c) == displayDetections(<<>>, Pixels(VideoWidth), Pixels(VideoHeight))

\* displayDetections(detections) in the animation-frame callback: the canvas
\* has the size of the video
Shown(c) ==
    displayDetections(cycles[c].dets, Pixels(VideoWidth), Pixels(VideoHeight))

\* the animation-frame callback: displayDetections(detections);
\* isProcessing = false.  updateStatus(true) constructs a Notification
\* outside any try statement: when that throws, the assignment is not
\* reached.  clearBusy stands for the assignment
RenderBody(c, throws, clearBusy) ==
    /\ cycles[c].pc = "render"
    /\ sink' = Shown(c)
    /\ statusPanel' = (IF sink'.found THEN "PHONE DETECTED" ELSE "Scanning...")
    /\ cycles' = RemoveAt(cycles, c)
    /\ IF throws /\ sink'.found
       THEN /\ log' = Log("end", "render", "escaped", cycles[c].out,
                          cycles[c].scheduled)
            /\ UNCHANGED isProcessing
       ELSE /\ log' = Log("end", "render", "ok", cycles[c].out,
                          cycles[c].scheduled)
            /\ isProcessing' = (IF clearBusy THEN FALSE ELSE isProcessing)
    /\ UNCHANGED <<isRunning, lastPredictionTime, now, model, videoReady,
                   timers, starts, startup, fnVars>>

\* the callback without "isProcessing = false"
CycleRender_NoClear(c, throws) == RenderBody(c, throws, FALSE)

CycleRender(c, throws) == RenderBody(c, throws, TRUE)

FnIdle ==
    /\ fnIn = <<>>
    /\ fnOut = <<>>
    /\ fnPc = "idle"

Init == SchedInit /\ FnIdle

Next ==
    \/ Advance
    \/ RequestPermission
    \/ LoadModel
    \/ LoadFails
    \/ VideoChange
    \/ CheckVideoStart
    \/ LoadedDataStart
    \/ BootFire
    \/ StopClick
    \/ \E kind \in TickKinds : predictWebcam(kind)
    \/ \E c \in 1..Len(cycles) : CycleEnter(c)
    \/ \E c \in 1..Len(cycles), throws \in BOOLEAN : CyclePreprocess(c, throws)
    \/ \E c \in 1..Len(cycles), throws \in BOOLEAN : CycleRun(c, throws)
    \/ \E c \in 1..Len(cycles), rejected \in BOOLEAN,
          out \in 0..Len(SchedOutputs) : InferenceSettles(c, rejected, out)
    \/ \E c \in 1..Len(cycles) : CycleDecode(c)
    \/ \E c \in 1..Len(cycles), throws \in BOOLEAN : CycleRender(c, throws)

Spec == Init /\ [][Next]_vars

\* every timer, idle callback and animation-frame callback that is scheduled
\* runs, every awaited promise settles, and time passes
Fairness ==
    /\ WF_vars(Advance)
    /\ WF_vars(BootFire)
    /\ \A kind \in TickKinds : WF_vars(predictWebcam(kind))
    /\ WF_vars(\E c \in 1..Len(cycles) : CycleEnter(c))
    /\ WF_vars(\E c \in 1..Len(cycles), throws \in BOOLEAN :
                   CyclePreprocess(c, throws))
    /\ WF_vars(\E c \in 1..Len(cycles), throws \in BOOLEAN : CycleRun(c, throws))
    /\ WF_vars(\E c \in 1..Len(cycles), rejected \in BOOLEAN,
                  out \in 0..Len(SchedOutputs) : InferenceSettles(c, rejected, out))
    /\ WF_vars(\E c \in 1..Len(cycles) : CycleDecode(c))
    /\ WF_vars(\E c \in 1..Len(cycles), throws \in BOOLEAN :
                   CycleRender(c, throws))

FairSpec == Spec /\ Fairness

-----------------------------------------------------------------------------
(* nms applied to candidate sequences *)

NmsBox(x, y, width, height) == [x |-> x, y |-> y, width |-> width, height |-> height]

\* boxes whose pairs have IOU 0.6 (first and second), 0.45 (third and
\* fourth), 0.38, 0.725, 0 and NaN (the empty box with itself)
NmsBoxes ==
    { NmsBox(0, 0, 40, 40), NmsBox(10, 0, 40, 40),
      NmsBox(0, 0, 29, 40), NmsBox(11, 0, 29, 40),
      NmsBox(5, 5, 0, 0) }

NmsScores == {9000, 7000}

NmsThresholds == {NmsThreshold, 60}

NmsCandidates ==
    { [x |-> b.x, y |-> b.y, width |-> b.width, height |-> b.height,
       class |-> PHONE_CLASS_INDEX, className |-> ClassName(PHONE_CLASS_INDEX),
       score |-> sc] : b \in NmsBoxes, sc \in NmsScores }

SeqsUpTo(S, n) == UNION { [1..k -> S] : k \in 0..n }

NmsInit ==
    /\ SchedInit
    /\ fnPc = "in"
    /\ fnOut = <<>>
    /\ fnIn \in [detections : SeqsUpTo(NmsCandidates, MaxDets),
                 iouThreshold : NmsThresholds]

ApplyNms ==
    /\ fnPc = "in"
    /\ fnOut' = nms(fnIn.detections, fnIn.iouThreshold)
    /\ fnPc' = "out"
    /\ UNCHANGED <<fnIn, schedVars>>

SpecNms == NmsInit /\ [][ApplyNms]_vars

-----------------------------------------------------------------------------
(* calculateIOU applied to pairs of boxes *)

\* boxes that overlap, contain one another, touch along an edge, touch at a
\* corner, lie apart along one axis or along both, and boxes of no area: two
\* points and a segment through the first point; and a box of negative width
IouBoxes ==
    { NmsBox(0, 0, 40, 40), NmsBox(10, 0, 40, 40), NmsBox(10, 10, 10, 10),
      NmsBox(40, 0, 40, 40), NmsBox(40, 40, 10, 10), NmsBox(60, 0, 10, 10),
      NmsBox(100, 100, 20, 20), NmsBox(5, 5, 0, 0), NmsBox(50, 50, 0, 0),
      NmsBox(5, 0, 0, 10), NmsBox(30, 10, -20, 10) }

IouInit ==
    /\ SchedInit
    /\ fnPc = "in"
    /\ fnOut = <<>>
    /\ fnIn \in [box1 : IouBoxes, box2 : IouBoxes]

ApplyIou ==
    /\ fnPc = "in"
    /\ fnOut' = calculateIOU(fnIn.box1, fnIn.box2)
    /\ fnPc' = "out"
    /\ UNCHANGED <<fnIn, schedVars>>

SpecIou == IouInit /\ [][ApplyIou]_vars

-----------------------------------------------------------------------------
(* postprocess applied to raw output tensors *)

DecodeBox == [cx |-> 100, cy |-> 100, w |-> 50, h |-> 50]

\* a box of the same size that does not overlap DecodeBox
DecodeBoxApart == [cx |-> 300, cy |-> 100, w |-> 50, h |-> 50]

\* objectness and the scores of classes 0, 67 and 79: the scenario record;
\* objectness below the threshold with a class score beyond 1 and a product
\* above the threshold; both at the boundary (0.4 * 1.0); a class score at
\* the threshold; the phone tied with a lower class; the phone beaten by a
\* higher class; objectness 1; the phone tied with a higher class
DecodeProfiles ==
    { <<90, 0, 90, 0>>, <<30, 0, 150, 0>>, <<40, 0, 100, 0>>, <<90, 0, 40, 0>>,
      <<90, 90, 90, 0>>, <<90, 0, 40, 90>>, <<100, 0, 90, 0>>,
      <<90, 0, 90, 90>> }

\* the profiles given to the second box
DecodeProfilesApart == { <<90, 0, 90, 0>>, <<90, 0, 40, 0>>, <<100, 0, 90, 0>> }

DecodeRec(b, p) ==
    [cx |-> b.cx, cy |-> b.cy, w |-> b.w, h |-> b.h, obj |-> p[1],
     lo |-> p[2], phone |-> p[3], hi |-> p[4]]

\* the first box with every profile, the second with three of them, and the
\* scenario record with a negative width
DecodeRecs ==
    { DecodeRec(DecodeBox, p) : p \in DecodeProfiles }
    \cup { DecodeRec(DecodeBoxApart, p) : p \in DecodeProfilesApart }
    \cup { [ScenarioRec EXCEPT !.w = -50] }

\* frame sizes: that of the model input and that of the camera stream
DecodeFrames == { <<ModelSize, ModelSize>>, <<VideoWidth, VideoHeight>> }

OtherDims == { <<1, 7, 7>>, <<7, 7>>, <<1, 2, 3>> }

\* an input of postprocess: a raw output given by its layout and records (or
\* by its shape, when it is of neither format) and the frame size
DecodeInputs ==
    { [layout |-> l, recs |-> r, dims |-> <<>>,
       imgWidth |-> f[1], imgHeight |-> f[2]] :
      l \in {"A", "B"}, r \in SeqsUpTo(DecodeRecs, MaxD) \ {<<>>},
      f \in DecodeFrames }
    \cup
    { [layout |-> "other", recs |-> <<>>, dims |-> d,
       imgWidth |-> f[1], imgHeight |-> f[2]] :
      d \in OtherDims, f \in DecodeFrames }

RawOutput(in) ==
    IF in.layout = "A" THEN TensorV8(in.recs)
    ELSE IF in.layout = "B" THEN TensorV5(in.recs)
    ELSE TensorOther(in.dims)

DecodeInit ==
    /\ SchedInit
    /\ fnPc = "in"
    /\ fnOut = <<>>
    /\ fnIn \in DecodeInputs

ApplyPostprocess ==
    /\ fnPc = "in"
    /\ fnOut' =
          LET result == postprocess(RawOutput(fnIn), fnIn.imgWidth,
                                    fnIn.imgHeight, ModelSize, ModelSize)
          IN  [detections |-> Decoded(RawOutput(fnIn), fnIn.imgWidth,
                                      fnIn.imgHeight, ModelSize, ModelSize),
               result |-> result,
               shown |-> displayDetections(result, Pixels(fnIn.imgWidth),
                                           Pixels(fnIn.imgHeight)),
               again |-> <<>>]
    /\ fnPc' = "out"
    /\ UNCHANGED <<fnIn, schedVars>>

\* the second call with const detections = [] moved out of the function: it
\* pushes onto the array the first call filled
ApplyPostprocessAgain_SharedArray ==
    /\ fnPc = "out"
    /\ fnOut' =
          LET detections ==
                  fnOut.detections
                      \o Decoded(RawOutput(fnIn), fnIn.imgWidth, fnIn.imgHeight,
                                 ModelSize, ModelSize)
          IN  [fnOut EXCEPT !.again =
                  << [detections |-> detections,
                      result |-> IF IsV8(RawOutput(fnIn).dims)
                                        \/ IsV5(RawOutput(fnIn).dims)
                                 THEN nms(detections, NmsThreshold)
                                 ELSE detections] >>]
    /\ fnPc' = "again"
    /\ UNCHANGED <<fnIn, schedVars>>

\* postprocess called a second time with the same arguments, after the first
\* call has returned
ApplyPostprocessAgain ==
    /\ fnPc = "out"
    /\ fnOut' = [fnOut EXCEPT !.again =
                    << [detections |-> Decoded(RawOutput(fnIn), fnIn.imgWidth,
                                               fnIn.imgHeight, ModelSize, ModelSize),
                        result |-> postprocess(RawOutput(fnIn), fnIn.imgWidth,
                                               fnIn.imgHeight, ModelSize,
                                               ModelSize)] >>]
    /\ fnPc' = "again"
    /\ UNCHANGED <<fnIn, schedVars>>

SpecDecode == DecodeInit /\ [][ApplyPostprocess \/ ApplyPostprocessAgain]_vars

-----------------------------------------------------------------------------
(* playAlertSound called at any time, with the sound toggle and initAudio *)

\* soundEnabled = true, audioContext = null, lastPhoneDetectionTime = 0; played
\* holds the times at which a sound was started
SoundInit ==
    /\ SchedInit
    /\ fnIn = <<>>
    /\ fnPc = "sound"
    /\ fnOut = [soundEnabled |-> TRUE, audioContext |-> "null",
                lastPhoneDetectionTime |-> 0, played |-> <<>>]

\* initAudio: the constructor of the audio context returns or throws
initAudio(throws) ==
    /\ fnPc = "sound"
    /\ fnOut' = [fnOut EXCEPT !.audioContext = IF throws THEN @ ELSE "created"]
    /\ log' = NoLog
    /\ UNCHANGED <<fnIn, fnPc, isRunning, isProcessing, lastPredictionTime, now,
                   model, videoReady, timers, cycles, starts, sink, startup,
                   statusPanel>>

\* the change handler of the sound toggle
SoundToggle ==
    /\ fnPc = "sound"
    /\ fnOut' = [fnOut EXCEPT !.soundEnabled = ~@]
    /\ log' = NoLog
    /\ UNCHANGED <<fnIn, fnPc, isRunning, isProcessing, lastPredictionTime, now,
                   model, videoReady, timers, cycles, starts, sink, startup,
                   statusPanel>>

\* the test of the cooldown with half of SOUND_COOLDOWN
SoundTooSoon_HalfCooldown ==
    now - fnOut.lastPhoneDetectionTime < SOUND_COOLDOWN \div 2

\* const now = Date.now(); if (now - lastPhoneDetectionTime < SOUND_COOLDOWN)
SoundTooSoon == now - fnOut.lastPhoneDetectionTime < SOUND_COOLDOWN

\* playAlertSound, called by updateStatus(true); throws: the try block fails
\* before oscillator.start
playAlertSound(throws) ==
    /\ fnPc = "sound"
    /\ IF ~fnOut.soundEnabled \/ fnOut.audioContext = "null"
       THEN /\ log' = Log("sound", "none", "off", 0, 0)
            /\ UNCHANGED fnOut
       ELSE IF SoundTooSoon
       THEN /\ log' = Log("sound", "none", "cooldown", 0, 0)
            /\ UNCHANGED fnOut
       ELSE /\ log' = Log("sound", "none", IF throws THEN "caught" ELSE "played",
                          0, 0)
            /\ fnOut' = [fnOut EXCEPT
                            !.lastPhoneDetectionTime = now,
                            !.played = IF throws THEN @ ELSE Append(@, now)]
    /\ UNCHANGED <<fnIn, fnPc, isRunning, isProcessing, lastPredictionTime, now,
                   model, videoReady, timers, cycles, starts, sink, startup,
                   statusPanel>>

SpecSound ==
    SoundInit /\ [][\/ Advance
                    \/ \E throws \in BOOLEAN : initAudio(throws)
                    \/ SoundToggle
                    \/ \E throws \in BOOLEAN : playAlertSound(throws)]_vars

-----------------------------------------------------------------------------
(* postprocess applied to tensors of one record repeated, of several sizes *)

\* the branch of postprocess that a shape takes: the test of outputDims[1]
\* comes first, that of outputDims[2] second, the fallback last
Format(outputDims) ==
    IF IsV8(outputDims) THEN "A"
    ELSE IF IsV5(outputDims) THEN "B"
    ELSE "other"

\* numbers of candidates: one, two, and the two feature counts
FormatCounts == {1, 2, DimsV8, DimsV5}

FormatOtherDims == OtherDims \cup { <<1, DimsV5, DimsV8>>, <<DimsV8, DimsV5>> }

FormatInputs ==
    { [layout |-> l, recs |-> [k \in 1..n |-> r], dims |-> <<>>,
       imgWidth |-> ModelSize, imgHeight |-> ModelSize] :
      l \in {"A", "B"}, r \in DecodeRecs, n \in FormatCounts }
    \cup
    { [layout |-> "other", recs |-> <<>>, dims |-> d,
       imgWidth |-> ModelSize, imgHeight |-> ModelSize] :
      d \in FormatOtherDims }

FormatInit ==
    /\ SchedInit
    /\ fnPc = "in"
    /\ fnOut = <<>>
    /\ fnIn \in FormatInputs

\* the number of turns of the loop of the branch taken: outputDims[2] for
\* YOLOv8, outputDims[1] for YOLOv5
LoopCount(output) ==
    IF Format(output.dims) = "A" THEN output.dims[3] ELSE output.dims[2]

\* postprocess is called: the branch is chosen from output.dims; the
\* fallback returns the empty array at once
FormatBegin ==
    /\ fnPc = "in"
    /\ fnOut' = [format |-> Format(RawOutput(fnIn).dims), i |-> 0,
                 detections |-> <<>>]
    /\ fnPc' = (IF Format(RawOutput(fnIn).dims) = "other" THEN "out" ELSE "loop")
    /\ UNCHANGED <<fnIn, schedVars>>

\* one turn of the loop of the branch taken
FormatStep ==
    /\ fnPc = "loop"
    /\ fnOut.i < LoopCount(RawOutput(fnIn))
    /\ fnOut' =
          LET output == RawOutput(fnIn)
              scaleX == Scale(fnIn.imgWidth, ModelSize)
              scaleY == Scale(fnIn.imgHeight, ModelSize)
          IN  [fnOut EXCEPT
                 !.i = @ + 1,
                 !.detections =
                     @ \o (IF fnOut.format = "A"
                           THEN StepV8(output.data, output.dims[3], fnOut.i,
                                       scaleX, scaleY)
                           ELSE StepV5(output.data, fnOut.i, scaleX, scaleY))]
    /\ UNCHANGED <<fnPc, fnIn, schedVars>>

\* the loop is over: fnOut.detections is the array handed to nms
FormatEnd ==
    /\ fnPc = "loop"
    /\ ~(fnOut.i < LoopCount(RawOutput(fnIn)))
    /\ fnPc' = "out"
    /\ UNCHANGED <<fnOut, fnIn, schedVars>>

SpecFormat == FormatInit /\ [][FormatBegin \/ FormatStep \/ FormatEnd]_vars

-----------------------------------------------------------------------------
(* displayDetections applied to detection sequences and canvas sizes *)

DisplayDet(x, y, width, height, class) ==
    [x |-> Pixels(x), y |-> Pixels(y),
     width |-> Pixels(width), height |-> Pixels(height),
     class |-> class, className |-> ClassName(class), score |-> 8100]

\* phones inside the canvas, across its right edge, left of and above its
\* origin, larger than the canvas, of no area, beyond the canvas, and of
\* negative width; and a detection of another class
DisplayDets ==
    { DisplayDet(75, 75, 50, 50, PHONE_CLASS_INDEX),
      DisplayDet(600, 100, 100, 50, PHONE_CLASS_INDEX),
      DisplayDet(-20, -10, 50, 50, PHONE_CLASS_INDEX),
      DisplayDet(10, 10, 700, 500, PHONE_CLASS_INDEX),
      DisplayDet(5, 5, 0, 0, PHONE_CLASS_INDEX),
      DisplayDet(700, 500, 50, 50, PHONE_CLASS_INDEX),
      DisplayDet(100, 100, -50, 50, PHONE_CLASS_INDEX),
      DisplayDet(75, 75, 50, 50, 0) }

\* canvas.width, canvas.height: the camera stream, half of it, and nothing
CanvasSizes ==
    { <<VideoWidth, VideoHeight>>, <<VideoWidth \div 2, VideoHeight \div 2>>,
      <<0, 0>> }

DisplayInit ==
    /\ SchedInit
    /\ fnPc = "in"
    /\ fnOut = <<>>
    /\ fnIn \in { [detections |-> d, canvasWidth |-> Pixels(c[1]),
                   canvasHeight |-> Pixels(c[2])] :
                  d \in SeqsUpTo(DisplayDets, MaxShown), c \in CanvasSizes }

ApplyDisplay ==
    /\ fnPc = "in"
    /\ fnOut' = displayDetections(fnIn.detections, fnIn.canvasWidth,
                                  fnIn.canvasHeight)
    /\ fnPc' = "out"
    /\ UNCHANGED <<fnIn, schedVars>>

SpecDisplay == DisplayInit /\ [][ApplyDisplay]_vars

-----------------------------------------------------------------------------
(* preprocess applied to the pixels of the resized frame *)

\* data[i] / 255.0, in thousandths
Normalize(v) == (v * 1000) \div 255

\* the buffer acc with value v stored at index k; writes counts the stores
Store(acc, k, v) ==
    [input |-> [acc.input EXCEPT ![k] = v],
     writes |-> [acc.writes EXCEPT ![k] = @ + 1]]

\* the body of the loop with the blue channel stored in the first plane and
\* the red channel in the third
WritePixel_BGR(acc, data, i, modelWidth, modelHeight) ==
    LET r == Normalize(data[i + 1])
        g == Normalize(data[i + 2])
        b == Normalize(data[i + 3])
        index == i \div 4
    IN  Store(Store(Store(acc, index, b),
                    index + modelWidth * modelHeight, g),
              index + 2 * modelWidth * modelHeight, r)

\* the body of the loop for the pixel whose bytes start at data[i] (data is
\* indexed from 1 here)
WritePixel(acc, data, i, modelWidth, modelHeight) ==
    LET r == Normalize(data[i + 1])
        g == Normalize(data[i + 2])
        b == Normalize(data[i + 3])
        index == i \div 4
    IN  Store(Store(Store(acc, index, r),
                    index + modelWidth * modelHeight, g),
              index + 2 * modelWidth * modelHeight, b)

RECURSIVE PixelLoop(_, _, _, _, _)
\* for (let i = 0; i < data.length; i += 4)
PixelLoop(acc, data, i, modelWidth, modelHeight) ==
    IF i < Len(data)
    THEN PixelLoop(WritePixel(acc, data, i, modelWidth, modelHeight), data,
                   i + 4, modelWidth, modelHeight)
    ELSE acc

\* preprocess, given the RGBA bytes getImageData returns for the frame drawn
\* at modelWidth x modelHeight: a zero-filled Float32Array of 3 * W * H
\* elements, filled by the loop
preprocess(data, modelWidth, modelHeight) ==
    LET zeros == [k \in 0 .. (3 * modelWidth * modelHeight - 1) |-> 0]
    IN  PixelLoop([input |-> zeros, writes |-> zeros], data, 0, modelWidth,
                  modelHeight)

\* new ort.Tensor('float32', input, [1, 3, modelHeight, modelWidth])
Tensor(buffer, modelWidth, modelHeight) ==
    [input |-> buffer.input, writes |-> buffer.writes,
     dims |-> <<1, 3, modelHeight, modelWidth>>]

\* RGBA colours whose channels are all different
PreColours == { <<255, 0, 51, 255>>, <<0, 102, 204, 0>>, <<51, 255, 153, 128>> }

\* the bytes of an image, row-major, four per pixel
ImageData(pixels) ==
    [k \in 1 .. (4 * Len(pixels)) |->
        pixels[((k - 1) \div 4) + 1][((k - 1) % 4) + 1]]

PreInputs ==
    { [modelWidth |-> w, modelHeight |-> h, data |-> ImageData(p)] :
      <<w, h, p>> \in
          UNION { { <<w, h, p>> : p \in [1 .. (w * h) -> PreColours] } :
                  <<w, h>> \in (1 .. MaxSide) \X (1 .. MaxSide) } }

PreInit ==
    /\ SchedInit
    /\ fnPc = "in"
    /\ fnOut = <<>>
    /\ fnIn \in PreInputs

ApplyPreprocess ==
    /\ fnPc = "in"
    /\ fnOut' = Tensor(preprocess(fnIn.data, fnIn.modelWidth, fnIn.modelHeight),
                       fnIn.modelWidth, fnIn.modelHeight)
    /\ fnPc' = "out"
    /\ UNCHANGED <<fnIn, schedVars>>

SpecPre == PreInit /\ [][ApplyPreprocess]_vars

-----------------------------------------------------------------------------
(* Claims about the scheduler, under Spec *)

CycleStep(c) ==
    \/ CycleEnter(c)
    \/ \E throws \in BOOLEAN : CyclePreprocess(c, throws)
    \/ \E throws \in BOOLEAN : CycleRun(c, throws)
    \/ \E rejected \in BOOLEAN, out \in 0..Len(SchedOutputs) :
          InferenceSettles(c, rejected, out)
    \/ CycleDecode(c)
    \/ \E throws \in BOOLEAN : CycleRender(c, throws)

\* C1: at most one detection cycle is in flight at any time, it holds the
\* busy flag, and a cycle begins only when no cycle is in flight and the busy
\* flag is clear.
C1_OneCycleInFlight ==
    /\ [](Len(cycles) <= 1 /\ (cycles # <<>> => isProcessing))
    /\ [][Len(cycles') > Len(cycles) => (cycles = <<>> /\ ~isProcessing)]_vars

\* a tick of a second chain arrives during the inference of a cycle, with the
\* frame ready and the interval elapsed, and is deferred
C1_Witness ==
    /\ starts = 2
    /\ Len(cycles) = 1 /\ cycles[1].pc = "infer"
    /\ log.ev = "tick" /\ log.outcome = "retry"
    /\ videoReady /\ now - lastPredictionTime >= DETECTION_INTERVAL

\* C2: when a stage of a cycle throws (preprocess, tensor construction,
\* inference, decode or render), the cycle ends with the busy flag cleared and
\* a next tick scheduled.
C2_ExceptionsCaught ==
    (log.ev = "end" /\ log.outcome \in {"caught", "escaped"})
        => (~isProcessing /\ timers["next"] > 0)

\* C3: when a started cycle has run its last callback, in success or in
\* error, the busy flag is cleared and the cycle has scheduled exactly one
\* next tick with the post-cycle delay.
C3_CycleEndsClean ==
    log.ev = "end" => (~isProcessing /\ log.n = 1)

C4_Step ==
    /\ ~isRunning => Len(cycles') <= Len(cycles)
    /\ log'.ev = "stop" => (cycles' = cycles /\ isProcessing' = isProcessing)
    /\ (~isRunning /\ log'.ev = "end" /\ log'.outcome = "ok")
           => (log'.stage = "render" /\ ~isProcessing')

UnknownShape(output) == ~IsV8(output.dims) /\ ~IsV5(output.dims)

\* C7: a raw output whose shape is neither format decodes to no candidate,
\* and its cycle ends with the render callback: the sink gets no box and
\* presence false, nothing is thrown, and the busy flag is cleared.
C7_UnknownShape ==
    /\ \A c \in 1..Len(cycles) :
          (cycles[c].pc = "render" /\ UnknownShape(SchedOutputs[cycles[c].out]))
              => cycles[c].dets = <<>>
    /\ (log.ev = "end" /\ log.out # 0 /\ UnknownShape(SchedOutputs[log.out]))
           => /\ log.stage = "render" /\ log.outcome = "ok"
              /\ sink = [boxes |-> <<>>, found |-> FALSE]
              /\ ~isProcessing

\* the cycle of an output of shape [1, 7, 7] has ended
C7_Witness ==
    /\ log.ev = "end" /\ log.out = 1 /\ log.outcome = "ok"
    /\ SchedOutputs[1].dims = <<1, 7, 7>>
    /\ sink = [boxes |-> <<>>, found |-> FALSE]
    /\ ~isProcessing

\* a run of predictWebcam put the tick off: the timer that fired is replaced
\* by one retry timer, no cycle began and the busy flag is as it was
Deferred ==
    /\ log'.outcome = "retry"
    /\ timers' = [[timers EXCEPT ![log'.stage] = @ - 1] EXCEPT !["retry"] = @ + 1]
    /\ cycles' = cycles
    /\ isProcessing' = isProcessing

\* C14 as stated: whenever predictWebcam runs while the busy flag is set, no
\* cycle starts, the flag stays set and a later run is scheduled.
C14_BusyTickDefers ==
    [][(isProcessing /\ log'.ev = "tick") => (Deferred /\ isProcessing')]_vars

\* C14 as amended: whenever predictWebcam runs while isRunning is true and the
\* busy flag is set, no cycle starts, the flag stays set and a later run is
\* scheduled.
C14_RunningBusyTickDefers ==
    [][(isRunning /\ isProcessing /\ log'.ev = "tick")
           => (Deferred /\ isProcessing')]_vars

\* the tick a cycle scheduled fires before its render callback, with the
\* frame ready and the interval elapsed: it is put off on the busy flag alone
C14_Witness ==
    /\ starts = 1 /\ isRunning /\ isProcessing
    /\ Len(cycles) = 1 /\ cycles[1].pc = "render"
    /\ log.ev = "tick" /\ log.stage = "next" /\ log.outcome = "retry"
    /\ videoReady /\ now - lastPredictionTime >= DETECTION_INTERVAL
    /\ timers["retry"] = 1

\* the frame source is not ready, or the interval since the last cycle began
\* has not elapsed
NotDue == ~videoReady \/ now - lastPredictionTime < DETECTION_INTERVAL

C17_FailedStartupRunsNoCycle ==
    /\ [][log'.ev = "loadfail" => statusPanel' = "Error"]_vars
    /\ [][startup = "failed"
              => ~(log'.ev = "tick" /\ log'.outcome = "begin"
                      /\ Len(cycles') > Len(cycles))]_vars

\* C18: a cycle that ends without error ends in its render callback, which
\* has handed displayDetections the detections decoded from the cycle's
\* output; the callback ends the cycle, and no other step draws or reports.
C18_SinkOncePerCompletedCycle ==
    /\ []((log.ev = "end" /\ log.outcome = "ok")
              => /\ log.stage = "render"
                 /\ sink = displayDetections(SchedDetections[log.out],
                                             Pixels(VideoWidth),
                                             Pixels(VideoHeight)))
    /\ [][(log'.ev = "end" /\ log'.stage = "render")
              => Len(cycles') = Len(cycles) - 1]_vars
    /\ [][~(log'.ev = "end" /\ log'.stage = "render")
              => /\ sink' = sink
                 /\ \/ statusPanel' = statusPanel
                    \/ statusPanel' \notin {"Scanning...", "PHONE DETECTED"}]_vars

\* the cycle of a box-major output with one phone has rendered it
C18_Witness ==
    /\ log.ev = "end" /\ log.outcome = "ok" /\ log.out = 3
    /\ IsV8(SchedOutputs[3].dims)
    /\ sink.found /\ Len(sink.boxes) = 1
    /\ sink.boxes[1].x = Pixels(75) /\ sink.boxes[1].w = Pixels(50)
    /\ sink.boxes[1].score = 9000
    /\ ~isProcessing

-----------------------------------------------------------------------------
(* Claims about nms, under SpecNms *)

Count(seq, e) == Cardinality({k \in DOMAIN seq : seq[k] = e})

\* C5: no two distinct candidates of the output of nms have an IOU at or
\* above the threshold, and an input candidate whose IOU with an accepted
\* candidate of higher score is at or above the threshold is not in the output.
C5_NoOverlapAccepted ==
    fnPc = "out" =>
        /\ \A i, j \in DOMAIN fnOut :
              i # j => ~IouAtLeast(calculateIOU(fnOut[i], fnOut[j]),
                                   fnIn.iouThreshold)
        /\ \A k \in DOMAIN fnIn.detections, a \in DOMAIN fnOut :
              (/\ fnOut[a].score > fnIn.detections[k].score
               /\ IouAtLeast(calculateIOU(fnOut[a], fnIn.detections[k]),
                             fnIn.iouThreshold))
                  => \A b \in DOMAIN fnOut : fnOut[b] # fnIn.detections[k]

NmsCand(box, score) ==
    [x |-> box.x, y |-> box.y, width |-> box.width, height |-> box.height,
     class |-> PHONE_CLASS_INDEX, className |-> ClassName(PHONE_CLASS_INDEX),
     score |-> score]

\* two candidates of IOU 0.6 and scores 0.7 and 0.9 at threshold 0.45: only
\* the candidate of score 0.9 is left
C5_Witness ==
    /\ fnPc = "out"
    /\ fnIn.iouThreshold = NmsThreshold
    /\ fnIn.detections = << NmsCand(NmsBox(0, 0, 40, 40), 7000),
                            NmsCand(NmsBox(10, 0, 40, 40), 9000) >>
    /\ calculateIOU(fnIn.detections[1], fnIn.detections[2]).num * 10
           = 6 * calculateIOU(fnIn.detections[1], fnIn.detections[2]).den
    /\ fnOut = << NmsCand(NmsBox(10, 0, 40, 40), 9000) >>

\* C6: every candidate of the output of nms is a candidate of the input with
\* all its fields, and occurs in the output at most as often as in the input.
C6_OutputSubCollection ==
    fnPc = "out" =>
        \A i \in DOMAIN fnOut :
            Count(fnOut, fnOut[i]) <= Count(fnIn.detections, fnOut[i])

\* an input with a repeated candidate, of which nms drops one and keeps two
C6_Witness ==
    /\ fnPc = "out"
    /\ Len(fnIn.detections) = 3 /\ Len(fnOut) = 2
    /\ Count(fnIn.detections, fnOut[1]) = 2

\* C23: the output of nms is in descending order of score, and two of its
\* candidates of equal score are in the order they had in the input.
C23_OrderedAndStable ==
    fnPc = "out" =>
        \A i, j \in DOMAIN fnOut :
            i < j =>
                /\ fnOut[i].score >= fnOut[j].score
                /\ fnOut[i].score = fnOut[j].score
                       => \E p, q \in DOMAIN fnIn.detections :
                              /\ p < q
                              /\ fnIn.detections[p] = fnOut[i]
                              /\ fnIn.detections[q] = fnOut[j]

\* three candidates that all survive, given with the lowest score first: the
\* two of score 0.9 come first, in their input order
C23_Witness ==
    /\ fnPc = "out"
    /\ Len(fnIn.detections) = 3
    /\ fnIn.detections[1].score = 7000
    /\ fnIn.detections[2].score = 9000 /\ fnIn.detections[3].score = 9000
    /\ fnIn.detections[2] # fnIn.detections[3]
    /\ fnOut = <<fnIn.detections[2], fnIn.detections[3], fnIn.detections[1]>>

-----------------------------------------------------------------------------
(* Claims about the decoder, under SpecDecode *)

SetMax(S) == CHOOSE m \in S : \A n \in S : n <= m
SetMin(S) == CHOOSE m \in S : \A n \in S : m <= n

\* the best class score of a record and the first class that has it
BestScore(rec) == SetMax({ClassScore(rec, j) : j \in 0..(NumClasses - 1)})
BestClass(rec) ==
    SetMin({j \in 0..(NumClasses - 1) : ClassScore(rec, j) = BestScore(rec)})

ExpectedDetection(rec, score) ==
    Detection(rec.cx, rec.cy, rec.w, rec.h,
              Scale(fnIn.imgWidth, ModelSize), Scale(fnIn.imgHeight, ModelSize),
              PHONE_CLASS_INDEX, score)

RECURSIVE Flatten(_)
Flatten(seqs) == IF seqs = <<>> THEN <<>> ELSE Head(seqs) \o Flatten(Tail(seqs))

\* the candidates of the records for which emit holds, in record order, each
\* with the confidence conf gives
Expected(recs, emit(_), conf(_)) ==
    Flatten([k \in 1..Len(recs) |->
                IF emit(recs[k])
                THEN <<ExpectedDetection(recs[k], conf(recs[k]))>>
                ELSE <<>>])

ProductB(rec) == rec.obj * BestScore(rec)

EmitB_Claimed(rec) ==
    /\ ProductB(rec) >= ConfThreshold * 100
    /\ BestClass(rec) = PHONE_CLASS_INDEX

EmitB(rec) ==
    /\ rec.obj >= ConfThreshold
    /\ ProductB(rec) >= ConfThreshold * 100
    /\ BestClass(rec) = PHONE_CLASS_INDEX

\* C8 as stated: a record of a record-major tensor yields a candidate if and
\* only if objectness * bestClassScore >= threshold and the argmax class is
\* the target class, with confidence objectness * bestClassScore.
C8_ProductAloneDecides ==
    (fnPc = "out" /\ fnIn.layout = "B")
        => fnOut.detections = Expected(fnIn.recs, EmitB_Claimed, ProductB)

\* C8 as amended: a record of a record-major tensor yields a candidate if and
\* only if its objectness >= threshold, objectness * bestClassScore >=
\* threshold and the argmax class is the target class, with confidence
\* objectness * bestClassScore; objectness 0.9 and target-class score 0.9
\* give exactly one candidate, of confidence 0.81 and rect (75, 75, 50, 50).
C8_ObjectnessAndProduct ==
    (fnPc = "out" /\ fnIn.layout = "B") =>
        /\ fnOut.detections = Expected(fnIn.recs, EmitB, ProductB)
        /\ (fnIn.recs = <<ScenarioRec>> /\ fnIn.imgWidth = ModelSize
                /\ fnIn.imgHeight = ModelSize)
               => fnOut.detections =
                     << [x |-> Pixels(75), y |-> Pixels(75),
                         width |-> Pixels(50), height |-> Pixels(50),
                         class |-> PHONE_CLASS_INDEX, className |-> "cell phone",
                         score |-> 8100] >>

\* the scenario record decoded, beside a record of objectness 0.3 whose
\* product 0.3 * 1.5 passes the threshold and which is not emitted
C8_Witness ==
    /\ fnPc = "out" /\ fnIn.layout = "B"
    /\ Len(fnIn.recs) = 2 /\ fnIn.recs[1] = ScenarioRec
    /\ fnIn.recs[2].obj = 30 /\ fnIn.recs[2].phone = 150
    /\ EmitB_Claimed(fnIn.recs[2])
    /\ Len(fnOut.detections) = 1 /\ fnOut.detections[1].score = 8100

ScoreA(rec) == BestScore(rec) * 100

EmitA(rec) ==
    /\ BestScore(rec) >= ConfThreshold
    /\ BestClass(rec) = PHONE_CLASS_INDEX

\* C9: in a box-major tensor of D candidates, whose feature f of candidate i
\* is at flat index f * D + i, candidate i is emitted if and only if its best
\* class score >= threshold and the argmax class is the target class, with
\* confidence the best class score.
C9_LayoutA ==
    (fnPc = "out" /\ fnIn.layout = "A")
        => /\ \A i \in 0..(Len(fnIn.recs) - 1), f \in 0..(DimsV8 - 1) :
                 At(RawOutput(fnIn).data, f * Len(fnIn.recs) + i)
                     = FeatureV8(fnIn.recs[i + 1], f)
           /\ fnOut.detections = Expected(fnIn.recs, EmitA, ScoreA)

\* two candidates in different boxes: the first tied with a lower class and
\* rejected, the second emitted at the threshold
C9_Witness ==
    /\ fnPc = "out" /\ fnIn.layout = "A"
    /\ Len(fnIn.recs) = 2
    /\ fnIn.recs[1].lo = 90 /\ fnIn.recs[1].phone = 90
    /\ fnIn.recs[2].phone = 40 /\ fnIn.recs[2].hi = 0
    /\ fnIn.recs[1].cx # fnIn.recs[2].cx
    /\ Len(fnOut.detections) = 1
    /\ fnOut.detections[1].score = 4000
    /\ fnOut.detections[1].x = ExpectedDetection(fnIn.recs[2], 4000).x

\* the same records in the other layout
OtherLayout(in) == [in EXCEPT !.layout = IF @ = "A" THEN "B" ELSE "A"]

\* what postprocess returns for the records of fnIn in the other layout
OtherResult ==
    postprocess(RawOutput(OtherLayout(fnIn)), fnIn.imgWidth, fnIn.imgHeight,
                ModelSize, ModelSize)

\* C11 as stated: a box-major and a record-major tensor of the same boxes and
\* class scores, decoded with the same frame and model dimensions, give the
\* same detections after suppression.
C11_LayoutInvariance ==
    (fnPc = "out" /\ fnIn.layout \in {"A", "B"}) => fnOut.result = OtherResult

\* C11 as amended: a box-major and a record-major tensor of the same boxes
\* and class scores, every record of the record-major tensor having
\* objectness 1, give the same detections after suppression.
C11_LayoutInvarianceAtObjectnessOne ==
    (/\ fnPc = "out" /\ fnIn.layout \in {"A", "B"}
     /\ \A k \in DOMAIN fnIn.recs : fnIn.recs[k].obj = 100)
        => fnOut.result = OtherResult

\* a record-major tensor of two records of objectness 1 in the same box: both
\* are decoded, suppression leaves one, and the box-major tensor gives the same
C11_Witness ==
    /\ fnPc = "out" /\ fnIn.layout = "B"
    /\ Len(fnIn.recs) = 2
    /\ \A k \in DOMAIN fnIn.recs : fnIn.recs[k].obj = 100
    /\ Len(fnOut.detections) = 2 /\ Len(fnOut.result) = 1
    /\ fnOut.result[1].score = 9000
    /\ fnOut.result = OtherResult

\* C13: the presence signal displayDetections hands to updateStatus is true
\* if and only if the detections it was given, those postprocess returned,
\* are not empty.
C13_PresenceIffNonEmpty ==
    fnPc = "out" => (fnOut.shown.found <=> fnOut.result # <<>>)

\* a tensor of two records of which one is decoded: presence is signalled
C13_Witness ==
    /\ fnPc = "out"
    /\ Len(fnIn.recs) = 2 /\ Len(fnOut.result) = 1
    /\ fnOut.shown.found
    /\ Len(fnOut.shown.boxes) = 1

\* C22: every candidate the decoder emits, and so every member of what
\* postprocess returns, has the class index of the phone; a record whose best
\* class is another one is not emitted, whatever its score.
C22_SingleClass ==
    fnPc = "out" =>
        /\ \A k \in DOMAIN fnOut.detections :
              fnOut.detections[k].class = PHONE_CLASS_INDEX
        /\ \A k \in DOMAIN fnOut.result :
              fnOut.result[k].class = PHONE_CLASS_INDEX
        /\ Len(fnOut.detections)
              <= Cardinality({k \in DOMAIN fnIn.recs :
                                 BestClass(fnIn.recs[k]) = PHONE_CLASS_INDEX})

\* a box-major tensor whose first candidate has its best score, 0.9, in class
\* 79 and whose second candidate is a phone: only the phone is emitted
C22_Witness ==
    /\ fnPc = "out" /\ fnIn.layout = "A"
    /\ Len(fnIn.recs) = 2
    /\ fnIn.recs[1].hi = 90 /\ BestClass(fnIn.recs[1]) = NumClasses - 1
    /\ fnIn.recs[2] = ScenarioRec
    /\ Len(fnOut.detections) = 1
    /\ fnOut.detections[1].class = PHONE_CLASS_INDEX
    /\ fnOut.detections[1].score = 9000

\* the score of the phone is the best of the record and no class of a lower
\* index has it
PhoneIsFirstBest(rec) ==
    /\ \A j \in 0..(NumClasses - 1) : ClassScore(rec, j) <= rec.phone
    /\ \A j \in 0..(PHONE_CLASS_INDEX - 1) : ClassScore(rec, j) < rec.phone

\* the score tests of the layout of fnIn, on the phone's score
PassesScoreTests(rec) ==
    IF fnIn.layout = "A" THEN rec.phone >= ConfThreshold
    ELSE rec.obj >= ConfThreshold /\ rec.obj * rec.phone >= ConfThreshold * 100

\* C32: the best class of a record is the lowest class index that has the
\* best score: the candidates are those of the records that pass the score
\* tests and whose phone score is the best and is not reached by any class of
\* a lower index, so a record tied with class 0 is rejected and one tied with
\* class 79 only is kept.
C32_LowestIndexWinsTies ==
    (fnPc = "out" /\ fnIn.layout \in {"A", "B"}) =>
        /\ Len(fnOut.detections)
              = Cardinality({k \in DOMAIN fnIn.recs :
                                /\ PhoneIsFirstBest(fnIn.recs[k])
                                /\ PassesScoreTests(fnIn.recs[k])})
        /\ \A k \in DOMAIN fnIn.recs :
              (fnIn.recs[k].lo = fnIn.recs[k].phone /\ Len(fnIn.recs) = 1)
                  => fnOut.detections = <<>>
        /\ \A k \in DOMAIN fnIn.recs :
              (/\ Len(fnIn.recs) = 1
               /\ fnIn.recs[k].hi = fnIn.recs[k].phone
               /\ fnIn.recs[k].lo < fnIn.recs[k].phone
               /\ PassesScoreTests(fnIn.recs[k]))
                  => Len(fnOut.detections) = 1

\* a record-major tensor whose first record has 0.9 for classes 0 and 67 and
\* whose second has 0.9 for classes 67 and 79: only the second is emitted
C32_Witness ==
    /\ fnPc = "out" /\ fnIn.layout = "B"
    /\ Len(fnIn.recs) = 2
    /\ fnIn.recs[1].lo = 90 /\ fnIn.recs[1].phone = 90 /\ fnIn.recs[1].hi = 0
    /\ fnIn.recs[2].lo = 0 /\ fnIn.recs[2].phone = 90 /\ fnIn.recs[2].hi = 90
    /\ Len(fnOut.detections) = 1
    /\ fnOut.detections[1].score = 8100

\* the index of the first candidate of the best score
FirstBest(dets) ==
    CHOOSE k \in DOMAIN dets :
        /\ \A j \in DOMAIN dets : dets[j].score <= dets[k].score
        /\ \A j \in 1..(k - 1) : dets[j].score < dets[k].score

\* C37: when the decoder has produced a candidate, what postprocess returns
\* is not empty and begins with the first of the candidates of the best
\* score; so displayDetections signals presence exactly when the decoder
\* produced a candidate before suppression.
C37_BestCandidateSurvives ==
    fnPc = "out" =>
        /\ fnOut.detections # <<>>
              => /\ fnOut.result # <<>>
                 /\ fnOut.result[1] = fnOut.detections[FirstBest(fnOut.detections)]
        /\ fnOut.shown.found <=> fnOut.detections # <<>>

\* two candidates in the same box, of confidence 0.81 and 0.9: the second is
\* the one returned, and presence is signalled
C37_Witness ==
    /\ fnPc = "out"
    /\ Len(fnOut.detections) = 2
    /\ fnOut.detections[1].score = 8100 /\ fnOut.detections[2].score = 9000
    /\ fnOut.result = << fnOut.detections[2] >>
    /\ fnOut.shown.found

\* C24: every candidate the decoder produces has width >= 0 and height >= 0,
\* for every raw output tensor and every frame size.
C24_SizeNotNegative ==
    fnPc = "out" =>
        \A k \in DOMAIN fnOut.detections :
            fnOut.detections[k].width >= 0 /\ fnOut.detections[k].height >= 0

\* the record is emitted by the layout of fnIn
EmitByLayout(rec) == IF fnIn.layout = "A" THEN EmitA(rec) ELSE EmitB(rec)

\* the box of det, in eighths of a pixel, is that of rec scaled by
\* imgWidth / ModelSize and imgHeight / ModelSize and moved from its centre to
\* its top-left corner: width = w * scaleX, x = cx * scaleX - width / 2
BoxOf(det, rec, imgWidth, imgHeight) ==
    /\ det.width * ModelSize = 8 * rec.w * imgWidth
    /\ det.height * ModelSize = 8 * rec.h * imgHeight
    /\ det.x * ModelSize = 8 * rec.cx * imgWidth - 4 * rec.w * imgWidth
    /\ det.y * ModelSize = 8 * rec.cy * imgHeight - 4 * rec.h * imgHeight

\* C29: the k-th emitted candidate has the box of the k-th emitted record,
\* scaled by frame size over model size on each axis and moved from centre to
\* top-left corner; with equal frame and model sizes the record
\* (100, 100, 50, 50) gives the rect (75, 75, 50, 50).
C29_BoxConversion ==
    fnPc = "out" =>
        LET emitted == SelectSeq(fnIn.recs, EmitByLayout)
        IN  /\ Len(fnOut.detections) = Len(emitted)
            /\ \A k \in DOMAIN emitted :
                  BoxOf(fnOut.detections[k], emitted[k], fnIn.imgWidth,
                        fnIn.imgHeight)
            /\ (fnIn.imgWidth = ModelSize /\ fnIn.imgHeight = ModelSize)
                   => \A k \in DOMAIN emitted :
                         (/\ emitted[k].cx = 100 /\ emitted[k].cy = 100
                          /\ emitted[k].w = 50 /\ emitted[k].h = 50)
                             => /\ fnOut.detections[k].x = Pixels(75)
                                /\ fnOut.detections[k].y = Pixels(75)
                                /\ fnOut.detections[k].width = Pixels(50)
                                /\ fnOut.detections[k].height = Pixels(50)

\* a record (300, 100, 50, 50) of a box-major tensor decoded for a 640 x 480
\* frame: rect (275, 56.25, 50, 37.5)
C29_Witness ==
    /\ fnPc = "out" /\ fnIn.layout = "A"
    /\ fnIn.imgWidth = VideoWidth /\ fnIn.imgHeight = VideoHeight
    /\ Len(fnIn.recs) = 1 /\ fnIn.recs[1].cx = 300 /\ fnIn.recs[1].cy = 100
    /\ Len(fnOut.detections) = 1
    /\ fnOut.detections[1].x = Pixels(275) /\ fnOut.detections[1].y = 450
    /\ fnOut.detections[1].width = Pixels(50) /\ fnOut.detections[1].height = 300

C10_ConfidenceInUnitInterval ==
    fnPc = "out" =>
        \A k \in DOMAIN fnOut.detections :
            /\ fnOut.detections[k].score >= 0
            /\ fnOut.detections[k].score <= 100 * 100

\* C36: a candidate of the input that is missing from the output of nms, or
\* is there fewer times than in the input, has an IOU at or above the
\* threshold with a candidate of the output whose score is not lower.
C36_RemovedHasOverlap ==
    fnPc = "out" =>
        \A k \in DOMAIN fnIn.detections :
            Count(fnOut, fnIn.detections[k])
                    < Count(fnIn.detections, fnIn.detections[k])
                => \E a \in DOMAIN fnOut :
                      /\ fnOut[a].score >= fnIn.detections[k].score
                      /\ IouAtLeast(calculateIOU(fnOut[a], fnIn.detections[k]),
                                    fnIn.iouThreshold)

-----------------------------------------------------------------------------
(* Claims about displayDetections, under SpecDisplay *)

\* C12: for every detection and every canvas size, the box displayDetections
\* hands to drawBox has x >= 0, y >= 0, x + width <= canvasWidth and
\* y + height <= canvasHeight.
C12_BoxWithinCanvas ==
    fnPc = "out" =>
        \A k \in DOMAIN fnOut.boxes :
            /\ fnOut.boxes[k].x >= 0
            /\ fnOut.boxes[k].y >= 0
            /\ fnOut.boxes[k].x + fnOut.boxes[k].w <= fnIn.canvasWidth
            /\ fnOut.boxes[k].y + fnOut.boxes[k].h <= fnIn.canvasHeight

\* a phone larger than the canvas drawn over the whole canvas, and a phone
\* across the right edge moved left to end at the edge
C12_Witness ==
    /\ fnPc = "out"
    /\ fnIn.canvasWidth = Pixels(VideoWidth)
    /\ fnIn.detections = << DisplayDet(10, 10, 700, 500, PHONE_CLASS_INDEX),
                            DisplayDet(600, 100, 100, 50, PHONE_CLASS_INDEX) >>
    /\ fnOut.boxes[1].x = 0 /\ fnOut.boxes[1].y = 0
    /\ fnOut.boxes[1].w = fnIn.canvasWidth /\ fnOut.boxes[1].h = fnIn.canvasHeight
    /\ fnOut.boxes[2].x = Pixels(540) /\ fnOut.boxes[2].w = Pixels(100)

\* the phones of the input, in order: one per box drawn
PhonesShown == SelectSeq(fnIn.detections, LAMBDA d : d.class = PHONE_CLASS_INDEX)

\* on one axis, the interval [outPos, outPos + outSize] is the part of
\* [pos, pos + size] that lies within [0, limit]
AxisTrimmed(pos, size, limit, outPos, outSize) ==
    /\ outPos = Max(0, pos)
    /\ outPos + outSize = Min(pos + size, limit)

\* on one axis, an interval that fits within [0, limit] keeps its size and is
\* moved by the least amount that brings it within; a longer one becomes
\* [0, limit]
AxisMoved(pos, size, limit, outPos, outSize) ==
    /\ (size >= 0 /\ size <= limit)
          => /\ outSize = size
             /\ outPos = (IF pos < 0 THEN 0
                          ELSE IF pos + size > limit THEN limit - size
                          ELSE pos)
    /\ (size > limit /\ limit >= 0) => (outPos = 0 /\ outSize = limit)

\* C38 as stated: the box drawn for a detection that meets the canvas is the
\* intersection of the detection's box with the canvas rectangle.
C38_DrawnIsIntersection ==
    fnPc = "out" =>
        \A k \in DOMAIN PhonesShown :
            LET det == PhonesShown[k]
                box == fnOut.boxes[k]
            IN  (/\ det.width >= 0 /\ det.height >= 0
                 /\ Max(0, det.x) <= Min(det.x + det.width, fnIn.canvasWidth)
                 /\ Max(0, det.y) <= Min(det.y + det.height, fnIn.canvasHeight))
                    => /\ AxisTrimmed(det.x, det.width, fnIn.canvasWidth,
                                      box.x, box.w)
                       /\ AxisTrimmed(det.y, det.height, fnIn.canvasHeight,
                                      box.y, box.h)

\* C38 as amended: a box inside the canvas is drawn unchanged; a box that
\* fits the canvas and crosses an edge keeps its width and height and is
\* moved by the least amount that brings it within the canvas; only a box
\* wider or higher than the canvas is trimmed, to the whole extent of the
\* canvas on that axis.
C38_DrawnIsMoved ==
    fnPc = "out" =>
        /\ Len(fnOut.boxes) = Len(PhonesShown)
        /\ \A k \in DOMAIN PhonesShown :
              LET det == PhonesShown[k]
                  box == fnOut.boxes[k]
              IN  /\ AxisMoved(det.x, det.width, fnIn.canvasWidth, box.x, box.w)
                  /\ AxisMoved(det.y, det.height, fnIn.canvasHeight, box.y, box.h)
                  /\ (/\ det.x >= 0 /\ det.y >= 0
                      /\ det.width >= 0 /\ det.height >= 0
                      /\ det.x + det.width <= fnIn.canvasWidth
                      /\ det.y + det.height <= fnIn.canvasHeight)
                         => /\ box.x = det.x /\ box.y = det.y
                            /\ box.w = det.width /\ box.h = det.height

\* a phone of width 100 at x = 600 on a canvas 640 wide: drawn at x = 540
\* with width 100, where the part on the canvas is 600 to 640
C38_Witness ==
    /\ fnPc = "out"
    /\ fnIn.canvasWidth = Pixels(VideoWidth) /\ fnIn.canvasHeight = Pixels(VideoHeight)
    /\ fnIn.detections = << DisplayDet(600, 100, 100, 50, PHONE_CLASS_INDEX) >>
    /\ Len(fnOut.boxes) = 1
    /\ fnOut.boxes[1].x = Pixels(540) /\ fnOut.boxes[1].w = Pixels(100)
    /\ fnOut.boxes[1].y = Pixels(100) /\ fnOut.boxes[1].h = Pixels(50)

-----------------------------------------------------------------------------
(* Claims about calculateIOU, under SpecIou *)

\* the IOU num / den is the number n
IouIs(iou, n) == iou.den # 0 /\ iou.num = n * iou.den

\* C19: calculateIOU(b, b) is 1 for every box b of width >= 0 and height
\* >= 0, boxes of zero area included.
C19_SelfIouIsOne ==
    (/\ fnPc = "out" /\ fnIn.box1 = fnIn.box2
     /\ fnIn.box1.width >= 0 /\ fnIn.box1.height >= 0)
        => IouIs(fnOut, 1)

\* two boxes of width >= 0 and height >= 0 whose interiors do not overlap
InteriorsApart(a, b) ==
    /\ a.width >= 0 /\ a.height >= 0 /\ b.width >= 0 /\ b.height >= 0
    /\ \/ a.width = 0 \/ a.height = 0 \/ b.width = 0 \/ b.height = 0
       \/ a.x + a.width <= b.x \/ b.x + b.width <= a.x
       \/ a.y + a.height <= b.y \/ b.y + b.height <= a.y

\* C21: calculateIOU(a, b) and calculateIOU(b, a) are the same value, for
\* every pair of boxes.
C21_IouSymmetric ==
    fnPc = "out" => fnOut = calculateIOU(fnIn.box2, fnIn.box1)

\* a box inside a larger box: the IOU is 1/16 in either order
C21_Witness ==
    /\ fnPc = "out"
    /\ fnIn.box1 = NmsBox(0, 0, 40, 40) /\ fnIn.box2 = NmsBox(10, 10, 10, 10)
    /\ fnOut = [num |-> 100, den |-> 1600]
    /\ calculateIOU(fnIn.box2, fnIn.box1) = fnOut

\* C20: calculateIOU(a, b) is 0 for every pair of boxes whose interiors do
\* not overlap, boxes that touch along an edge or at a corner included.
C20_ApartIouIsZero ==
    (fnPc = "out" /\ InteriorsApart(fnIn.box1, fnIn.box2)) => IouIs(fnOut, 0)

-----------------------------------------------------------------------------
(* Claims about preprocess, under SpecPre *)

\* the bytes of an image with every alpha byte replaced by a
WithAlpha(data, a) == [k \in DOMAIN data |-> IF k % 4 = 0 THEN a ELSE data[k]]

-----------------------------------------------------------------------------
(* Claims about the stages and the starts of cycles, under Spec *)

\* a cycle is waiting for model.run to settle
AtInfer(cs) == \E c \in DOMAIN cs : cs[c].pc = "infer"

\* C25: while the inference call of a cycle has not returned, the busy flag
\* stays set, no cycle starts and nothing is rendered, whatever time passes
\* and whichever timers fire: every step other than the settling of the
\* call leaves the cycle, the flag and the sink as they are.
C25_HungInferenceHoldsBusy ==
    [][(AtInfer(cycles) /\ AtInfer(cycles'))
          => /\ isProcessing /\ isProcessing'
             /\ cycles' = cycles
             /\ sink' = sink
             /\ log'.ev # "end" /\ log'.outcome # "begin"]_vars

\* the call has been pending for two intervals, the video is ready and the
\* system running, and a tick has just been put off
C25_Witness ==
    /\ AtInfer(cycles) /\ isProcessing /\ isRunning /\ videoReady
    /\ now - lastPredictionTime >= 2 * DETECTION_INTERVAL
    /\ log.ev = "tick" /\ log.outcome = "retry"
    /\ timers["retry"] > 0

StageRank(pc) ==
    CASE pc = "yield" -> 1
      [] pc = "preprocess" -> 2
      [] pc = "tensor" -> 3
      [] pc = "infer" -> 4
      [] pc = "decode" -> 5
      [] pc = "render" -> 6

\* C27: a cycle begins in the step that sets the busy flag and records the
\* start time; from there it goes through preprocess, tensor construction,
\* inference, decoding and render one stage at a time, in that order and
\* never back; the busy flag is set only by the beginning of a cycle and
\* cleared only by its end, which on the success path is the render.
C27_StageOrder ==
    [][/\ Len(cycles') > Len(cycles)
            => /\ cycles' = Append(cycles, Cycle("yield", 0, <<>>, 0))
               /\ ~isProcessing /\ isProcessing'
               /\ lastPredictionTime' = now
       /\ (Len(cycles') = Len(cycles) /\ cycles' # cycles)
            => \E c \in DOMAIN cycles :
                  /\ \A d \in DOMAIN cycles \ {c} : cycles'[d] = cycles[d]
                  /\ StageRank(cycles'[c].pc) = StageRank(cycles[c].pc) + 1
                  /\ log'.stage = cycles[c].pc
                  /\ isProcessing /\ isProcessing'
       /\ Len(cycles') < Len(cycles)
            => \E c \in DOMAIN cycles :
                  /\ cycles' = RemoveAt(cycles, c)
                  /\ log'.ev = "end" /\ log'.stage = cycles[c].pc
                  /\ log'.outcome # "caught" => cycles[c].pc = "render"
       /\ (~isProcessing /\ isProcessing') => Len(cycles') > Len(cycles)
       /\ (isProcessing /\ ~isProcessing')
            => /\ Len(cycles') < Len(cycles)
               /\ log'.outcome = "ok" => log'.stage = "render"]_vars

\* a cycle that began at the first instant has gone through every stage and
\* its render has shown a phone and cleared the busy flag
C27_Witness ==
    /\ log.ev = "end" /\ log.stage = "render" /\ log.outcome = "ok"
    /\ log.out = 4 /\ sink.found
    /\ isRunning /\ ~isProcessing /\ cycles = <<>>
    /\ lastPredictionTime = DETECTION_INTERVAL

\* C28: the start timestamps of two consecutive cycles are at least
\* DETECTION_INTERVAL apart: a step that begins a cycle records a time that
\* is at least DETECTION_INTERVAL later than the one recorded before.
C28_StartsApart ==
    [][Len(cycles') > Len(cycles)
          => /\ lastPredictionTime' = now
             /\ lastPredictionTime' - lastPredictionTime >= DETECTION_INTERVAL]_vars

\* a cycle begins exactly DETECTION_INTERVAL after the start of the cycle
\* whose render is in the sink
C28_Witness ==
    /\ log.ev = "tick" /\ log.outcome = "begin"
    /\ sink.found
    /\ lastPredictionTime = 2 * DETECTION_INTERVAL
    /\ Len(cycles) = 1 /\ cycles[1].pc = "yield"

-----------------------------------------------------------------------------
(* Claims about the choice of the format, under SpecFormat *)

\* C31: the shape of a raw output selects the layout it was written in: a
\* tensor of shape [1, D, 85] is decoded record-major and one of shape
\* [1, 84, D] box-major, for every D, and any other shape is decoded to
\* nothing.  The records of a tensor of SpecFormat are all equal.
C31_FormatByShape ==
    fnPc = "out" =>
        /\ fnOut.format = fnIn.layout
        /\ fnIn.layout = "A"
              => fnOut.detections
                    = [k \in 1..(IF EmitA(fnIn.recs[1]) THEN Len(fnIn.recs) ELSE 0)
                          |-> ExpectedDetection(fnIn.recs[1], ScoreA(fnIn.recs[1]))]
        /\ fnIn.layout = "B"
              => fnOut.detections
                    = [k \in 1..(IF EmitB(fnIn.recs[1]) THEN Len(fnIn.recs) ELSE 0)
                          |-> ExpectedDetection(fnIn.recs[1], ProductB(fnIn.recs[1]))]
        /\ fnIn.layout = "other" => fnOut.detections = <<>>

-----------------------------------------------------------------------------
(* Claims about the tick chains, under Spec *)

\* the predictWebcam callbacks that are scheduled and have not run
PendingTicks == timers["start"] + timers["retry"] + timers["next"]

\* the cycles that have not yet called setTimeout(predictWebcam, 1000)
Unscheduled == Cardinality({c \in DOMAIN cycles : cycles[c].scheduled = 0})

\* C33: at most one tick chain is live: the scheduled predictWebcam callbacks
\* and the cycles that have not yet scheduled the tick that follows them are
\* together never more than one.
C33_OneTickChain == PendingTicks + Unscheduled <= 1

-----------------------------------------------------------------------------
(* Claims about progress, under FairSpec *)

\* the clock of the model can still reach the end of the interval that began
\* with the last cycle
CanStillStart == lastPredictionTime + DETECTION_INTERVAL
                     <= DETECTION_INTERVAL + MaxClock * NextDelay

\* C34: while the system is running with the model loaded and the video
\* ready, and every scheduled callback runs and every inference settles, a
\* cycle begins again and again: from every such state in which the interval
\* can still elapse, a cycle begins, or the system is stopped or the video
\* is lost.
C34_CyclesKeepStarting ==
    (isRunning /\ model = "loaded" /\ videoReady /\ CanStillStart)
        ~> \/ log.ev = "tick" /\ log.outcome = "begin"
           \/ ~isRunning
           \/ ~videoReady

\* C35: a tick that finds isRunning false changes nothing but its own timer
\* and schedules nothing; and once the system is stopped and is not started
\* again, the cycle in flight ends and in the end no timer is pending and the
\* busy flag is false.
C35_StopTerminates ==
    /\ [][(log'.ev = "tick" /\ ~isRunning)
             => /\ log'.outcome = "return"
                /\ PendingTicks' = PendingTicks - 1
                /\ UNCHANGED <<isRunning, isProcessing, lastPredictionTime,
                               cycles, sink, statusPanel, model, startup>>]_vars
    /\ (~isRunning /\ starts = MaxStarts)
          ~> (/\ PendingTicks = 0 /\ timers["boot"] = 0
              /\ cycles = <<>> /\ ~isProcessing)

-----------------------------------------------------------------------------
(* Claims about playAlertSound, under SpecSound *)

====
